---------------------------- MODULE Spec2Model ----------------------------
(***************************************************************************)
(* Thermostat control engine of shelly-blu-ht (src/api/thermostat.py and   *)
(* the thermostat handlers of src/api/main.py).                            *)
(*                                                                         *)
(* Units.  Temperatures are integers in tenths of a degree Celsius         *)
(* (22.0 C is 220, a hysteresis of 0.5 C is 5).  The clock counts ticks,   *)
(* TicksPerMinute of them to the minute, so that dwell times that are not  *)
(* whole minutes exist; the code's comparison                              *)
(*     (now - last_switch_change).total_seconds() / 60 >= min_off_time     *)
(* is ticks >= min_off_time * TicksPerMinute.                              *)
(* The thresholds target -/+ hysteresis are exact in tenths; the rounding   *)
(* of the code's float subtraction and addition is not modelled.           *)
(* An Optional value is a sequence: << >> is None, <<v>> holds v.          *)
(***************************************************************************)
EXTENDS Integers, Sequences, FiniteSets, TLC

VARIABLES
    config,              \* thermostat_manager.config (ThermostatConfig)
    state,               \* thermostat_manager.state (ThermostatState)
    file,                \* the content of CONFIG_FILE
    control_loop_state,  \* the control-loop health record
    output,              \* the relay of the Shelly switch (Switch.GetStatus "output")
    now,                 \* datetime.utcnow(), in ticks
    response,            \* the last handler or loop step that ran and its HTTP status
    request,             \* the JSON body of the last configuration update request
    updates,             \* the update_state calls made by the last step
    faults,              \* how many _save calls have failed
    call,                \* arguments of a call of calculate_control_decision
    ret,                 \* what that call returned (None before the call)
    calls,               \* how many times it was called
    loop,                \* the control-loop task: where it waits, and its locals
    commands,            \* the set_switch calls made by the last step
    iter,                \* what the loop's current or last iteration saw and did
    health,              \* the body of the last health_check response
    served               \* how many requests and outside switchings changed something

vars == <<config, state, file, control_loop_state, output, now, response, request,
          updates, faults, call, ret, calls, loop, commands, iter, health, served>>

-----------------------------------------------------------------------------
(* Bounds of the model *)

MaxTime == 3          \* the clock stops here
MaxDwell == 4         \* the decision function is called at times up to this
TicksPerMinute == 2   \* clock ticks in a minute
Margin == 1           \* temperatures tried beyond the widest thresholds, in tenths
MaxCalls == 2         \* calls of the decision function on the same arguments
MaxFaults == 1        \* _save failures
MaxRequests == 2      \* configuration updates, switch requests and outside switchings

-----------------------------------------------------------------------------
(* Optional values *)

None == << >>
Some(v) == <<v>>

-----------------------------------------------------------------------------
(* ThermostatConfig: field defaults and bounds (tenths of a degree, minutes, *)
(* samples, seconds)                                                        *)

TargetTempDefault == 220
TempMin == 180
TempMax == 240
EcoTempDefault == 180
HysteresisDefault == 5
HysteresisMin == 1
HysteresisMax == 20
MinOnTimeDefault == 30
MinOffTimeDefault == 10
DwellMin == 1
DwellMax == 120
SampleCountDefault == 3
SampleCountMin == 1
SampleCountMax == 10
ControlIntervalDefault == 180
ControlIntervalMin == 60
ControlIntervalMax == 600

\* GET /health: seconds after which the last run of the loop is stale
StaleAfter == 360

ThermostatMode == {"AUTO", "ECO", "ON", "OFF"}

-----------------------------------------------------------------------------
(* calculate_control_decision *)

\* time_since_change: None stands for float('inf') (no previous change),
\* else the ticks from last_switch_change to utcnow (negative when the
\* recorded change lies ahead of the clock)
time_since_change_zero(last_switch_change, utcnow) ==
    IF last_switch_change # None THEN Some(utcnow - last_switch_change[1]) ELSE Some(0)

time_since_change(last_switch_change, utcnow) ==
    IF last_switch_change # None THEN Some(utcnow - last_switch_change[1]) ELSE None

\* time_since_change >= minutes
AtLeastStrict(since, minutes) ==
    since = None \/ (since # None /\ since[1] > minutes * TicksPerMinute)

AtLeastNoUnit(since, minutes) ==
    since = None \/ (since # None /\ since[1] >= minutes)

AtLeast(since, minutes) ==
    since = None \/ (since # None /\ since[1] >= minutes * TicksPerMinute)

turn_on_threshold(target_temp, hysteresis) == target_temp - hysteresis

turn_off_threshold_bare(target_temp, hysteresis) == target_temp

turn_off_threshold(target_temp, hysteresis) == target_temp + hysteresis

\* turn_on_threshold <= current_temp < turn_off_threshold
InDeadbandClosed(current_temp, low, high) == low <= current_temp /\ current_temp <= high

InDeadbandOpen(current_temp, low, high) == low < current_temp /\ current_temp < high

InDeadband(current_temp, low, high) == low <= current_temp /\ current_temp < high

\* The reason is modelled by its category: the fixed text that opens (or, for
\* the deadband, closes) the f-string of the branch that returned.
calculate_control_decision(current_temp, target_temp, hysteresis, current_switch_on, last_switch_change, min_on_time, min_off_time, utcnow) ==
    LET since == time_since_change(last_switch_change, utcnow)
        low == turn_on_threshold(target_temp, hysteresis)
        high == turn_off_threshold(target_temp, hysteresis)
    IN  IF InDeadband(current_temp, low, high)
        THEN IF current_switch_on
             THEN [should_be_on |-> current_switch_on, reason |-> "in deadband, maintaining ON"]
             ELSE [should_be_on |-> current_switch_on, reason |-> "in deadband, maintaining OFF"]
        ELSE IF current_temp < low
        THEN IF current_switch_on
             THEN [should_be_on |-> TRUE, reason |-> "Heating"]
             ELSE IF AtLeast(since, min_off_time)
                  THEN [should_be_on |-> TRUE, reason |-> "Turning ON"]
                  ELSE [should_be_on |-> FALSE, reason |-> "Heating needed but locked OFF"]
        ELSE IF current_temp >= high
        THEN IF ~current_switch_on
             THEN [should_be_on |-> FALSE, reason |-> "Target reached"]
             ELSE IF AtLeast(since, min_on_time)
                  THEN [should_be_on |-> FALSE, reason |-> "Turning OFF"]
                  ELSE [should_be_on |-> TRUE, reason |-> "Target reached but locked ON"]
        ELSE [should_be_on |-> current_switch_on,
              reason |-> "Maintaining current state (unexpected condition)"]

-----------------------------------------------------------------------------
(* ThermostatConfig: pydantic validation of a JSON object *)

FieldNames == {"target_temp", "eco_temp", "mode", "hysteresis", "min_on_time",
               "min_off_time", "temp_sample_count", "control_interval"}

\* ThermostatConfig(): every field at its default
DefaultConfig ==
    [target_temp |-> TargetTempDefault, eco_temp |-> EcoTempDefault, mode |-> "AUTO",
     hysteresis |-> HysteresisDefault, min_on_time |-> MinOnTimeDefault,
     min_off_time |-> MinOffTimeDefault, temp_sample_count |-> SampleCountDefault,
     control_interval |-> ControlIntervalDefault]

\* A JSON object with no key
Empty == [f \in {} |-> 0]

\* Field(..., ge=lo, le=hi)
GeLe(v, lo, hi) == lo <= v /\ v <= hi

\* The configuration without its validator
eco_temp_unchecked(v, values) == TRUE

\* @validator('eco_temp'): values holds the fields validated before eco_temp
eco_temp_must_be_valid(v, values) ==
    ~("target_temp" \in DOMAIN values /\ v > values["target_temp"])

\* None when validation raises, else the configuration: a key that is absent
\* takes the field's default (and is not validated), a key that is present
\* must satisfy the field's constraints.
ThermostatConfig(data) ==
    LET Has(f) == f \in DOMAIN data
        target_ok == ~Has("target_temp") \/ GeLe(data["target_temp"], TempMin, TempMax)
        values == IF target_ok
                  THEN [f \in {"target_temp"} |->
                           IF Has("target_temp") THEN data["target_temp"]
                           ELSE TargetTempDefault]
                  ELSE Empty
        eco_ok == \/ ~Has("eco_temp")
                  \/ /\ GeLe(data["eco_temp"], TempMin, TempMax)
                     /\ eco_temp_must_be_valid(data["eco_temp"], values)
        mode_ok == ~Has("mode") \/ data["mode"] \in ThermostatMode
        hysteresis_ok == ~Has("hysteresis")
                         \/ GeLe(data["hysteresis"], HysteresisMin, HysteresisMax)
        min_on_ok == ~Has("min_on_time") \/ GeLe(data["min_on_time"], DwellMin, DwellMax)
        min_off_ok == ~Has("min_off_time") \/ GeLe(data["min_off_time"], DwellMin, DwellMax)
        count_ok == ~Has("temp_sample_count")
                    \/ GeLe(data["temp_sample_count"], SampleCountMin, SampleCountMax)
        interval_ok == ~Has("control_interval")
                       \/ GeLe(data["control_interval"], ControlIntervalMin, ControlIntervalMax)
    IN  IF target_ok /\ eco_ok /\ mode_ok /\ hysteresis_ok /\ min_on_ok /\ min_off_ok
           /\ count_ok /\ interval_ok
        THEN Some([f \in FieldNames |-> IF Has(f) THEN data[f] ELSE DefaultConfig[f]])
        ELSE None

\* ThermostatState built from a JSON object: no constraint beyond the types
StateFieldNames == {"switch_on", "last_switch_change", "last_control_decision"}

DefaultState ==
    [switch_on |-> FALSE, last_switch_change |-> None, last_control_decision |-> None]

ThermostatState(data) ==
    [f \in StateFieldNames |-> IF f \in DOMAIN data THEN data[f] ELSE DefaultState[f]]

-----------------------------------------------------------------------------
(* ThermostatManager: loading and saving CONFIG_FILE *)

\* The file is absent, is not a JSON object ("corrupt": empty, truncated or
\* otherwise unparsable), or holds {"config": ..., "state": ...}.
AbsentFile == [kind |-> "absent", config |-> Empty, state |-> Empty]
CorruptFile == [kind |-> "corrupt", config |-> Empty, state |-> Empty]
JsonFile(c, s) == [kind |-> "json", config |-> c, state |-> s]

\* A timestamp text that keeps the minute and drops what follows it
isoformat_minutes(t) == [iso |-> (t \div TicksPerMinute) * TicksPerMinute]

\* datetime.isoformat(): the text that names the instant t
isoformat(t) == [iso |-> t]

\* datetime.fromisoformat(text.replace('Z', '+00:00'))
fromisoformat(text) == text.iso

\* self.state.dict() with last_switch_change, when there is one, as text
state_dict(s) ==
    [s EXCEPT !.last_switch_change = IF @ # None THEN Some(isoformat(@[1])) ELSE None]

\* A load that builds the configuration without validating it
_load_config_unvalidated(f) ==
    IF f.kind = "json"
    THEN [n \in FieldNames |-> IF n \in DOMAIN f.config THEN f.config[n] ELSE DefaultConfig[n]]
    ELSE DefaultConfig

_load_config(f) ==
    IF f.kind = "json" /\ ThermostatConfig(f.config) # None
    THEN ThermostatConfig(f.config)[1]
    ELSE DefaultConfig

_load_state(f) ==
    LET state_data == f.state
        dated == /\ "last_switch_change" \in DOMAIN state_data
                 /\ state_data["last_switch_change"] # None
        converted == IF dated
                     THEN [state_data EXCEPT
                              !["last_switch_change"] = Some(fromisoformat(@[1]))]
                     ELSE state_data
    IN  IF f.kind = "json" THEN ThermostatState(converted) ELSE DefaultState

\* What _save leaves in the file.  "ok": the dump is written.  "unwritten": it
\* raised before the file was opened for writing (mkdir or open failed).
\* "truncated": open(..., 'w') emptied the file and the dump then raised.
SaveOutcomes == {"ok", "unwritten", "truncated"}

_save(outcome, c, s) ==
    file' = CASE outcome = "ok" -> JsonFile(c, state_dict(s))
              [] outcome = "unwritten" -> file
              [] OTHER -> CorruptFile

\* A configuration whose mode is the one the loop read in its last iteration
get_config_last_mode ==
    IF control_loop_state.last_mode # None
    THEN [config EXCEPT !.mode = control_loop_state.last_mode[1]]
    ELSE config

\* return self.config
get_config == config

\* self.config = new_config; self._save()
set_config(new_config, outcome) ==
    /\ config' = new_config
    /\ _save(outcome, new_config, state)

\* An update that stamps last_switch_change on every call
StateAfterUpdateAlwaysStamps(switch_on, decision) ==
    [state EXCEPT !.last_switch_change = Some(now), !.switch_on = switch_on,
                  !.last_control_decision = Some(decision)]

\* An update that records the decision and not the switch
StateAfterUpdateDecisionOnly(switch_on, decision) ==
    IF Some(decision) # state.last_control_decision
    THEN [state EXCEPT !.last_control_decision = Some(decision)]
    ELSE state

\* update_state(switch_on, decision): decision is a non-empty string here
StateAfterUpdate(switch_on, decision) ==
    LET flipped == switch_on # state.switch_on
        s1 == IF flipped
              THEN [state EXCEPT !.last_switch_change = Some(now), !.switch_on = switch_on]
              ELSE state
    IN  IF Some(decision) # s1.last_control_decision
        THEN [s1 EXCEPT !.last_control_decision = Some(decision)]
        ELSE s1

update_state(switch_on, decision, outcome) ==
    /\ state' = StateAfterUpdate(switch_on, decision)
    /\ IF state' # state
       THEN _save(outcome, config, state')
       ELSE file' = file

\* update_state raised: something changed and _save failed
UpdateRaises(switch_on, decision, outcome) ==
    StateAfterUpdate(switch_on, decision) # state /\ outcome # "ok"

-----------------------------------------------------------------------------
(* The decision function on its own: arguments from bounded sets *)

DwellInputs == {DwellMin, DwellMin + 1, DwellMax}

TargetInputs == {TargetTempDefault, TargetTempDefault + 1}

HysteresisInputs == {HysteresisMin, HysteresisDefault}

TempInputs ==
    (TargetTempDefault - HysteresisDefault - Margin)
        .. (TargetTempDefault + 1 + HysteresisDefault + Margin)

DecisionInputs ==
    [current_temp : TempInputs,
     target_temp : TargetInputs,
     hysteresis : HysteresisInputs,
     current_switch_on : BOOLEAN,
     last_switch_change : {None} \cup {Some(t) : t \in 0..MaxDwell},
     min_on_time : DwellInputs,
     min_off_time : DwellInputs]

NoCall ==
    [current_temp |-> TargetTempDefault, target_temp |-> TargetTempDefault,
     hysteresis |-> HysteresisDefault, current_switch_on |-> FALSE,
     last_switch_change |-> None, min_on_time |-> MinOnTimeDefault,
     min_off_time |-> MinOffTimeDefault]

\* control_loop_state as the module creates it
InitialLoopState ==
    [running |-> FALSE, last_run |-> None, last_error |-> None,
     consecutive_errors |-> 0, last_mode |-> None, mode_action_done |-> FALSE]

NoResponse == [handler |-> "none", status |-> 0]

\* The control-loop task before startup_event has created it
NotStarted ==
    [pc |-> "created", branch |-> "none", should_be_on |-> FALSE, reason |-> "none",
     wake |-> 0]

\* No iteration of the control loop has begun
NoIteration ==
    [temps |-> << >>, outcome |-> "none", failures |-> 0, errors_before |-> 0,
     reads |-> 0, critical |-> FALSE, flip |-> None]

InitDecision ==
    /\ call \in DecisionInputs
    /\ now \in 0..MaxDwell
    /\ ret = None
    /\ calls = 0
    /\ config = DefaultConfig
    /\ state = DefaultState
    /\ file = AbsentFile
    /\ control_loop_state = InitialLoopState
    /\ output = FALSE
    /\ response = NoResponse
    /\ request = Empty
    /\ updates = << >>
    /\ faults = 0
    /\ loop = NotStarted
    /\ commands = << >>
    /\ iter = NoIteration
    /\ health = None
    /\ served = 0

\* A decision call that records the change it asks for
DecideRecording ==
    LET d == calculate_control_decision(
                 call.current_temp, call.target_temp, call.hysteresis,
                 call.current_switch_on, call.last_switch_change,
                 call.min_on_time, call.min_off_time, now)
    IN  /\ calls < MaxCalls
        /\ ret' = Some(d)
        /\ calls' = calls + 1
        /\ state' = IF d.should_be_on # call.current_switch_on
                    THEN [state EXCEPT !.last_switch_change = Some(now)]
                    ELSE state
        /\ UNCHANGED <<config, file, control_loop_state, output, now, response,
                       request, updates, faults, call, loop, commands, iter, health, served>>

\* should_be_on, reason = calculate_control_decision(...)
Decide ==
    /\ calls < MaxCalls
    /\ ret' = Some(calculate_control_decision(
                  call.current_temp, call.target_temp, call.hysteresis,
                  call.current_switch_on, call.last_switch_change,
                  call.min_on_time, call.min_off_time, now))
    /\ calls' = calls + 1
    /\ UNCHANGED <<config, state, file, control_loop_state, output, now, response,
                   request, updates, faults, call, loop, commands, iter, health, served>>

NextDecision == Decide

SpecDecision == InitDecision /\ [][NextDecision]_vars

-----------------------------------------------------------------------------
(* The running service: process start, request handlers, the environment *)

\* Values tried for each field of a configuration update: both ends of the
\* field's range and the first value beyond each end
SetpointInputs == {TempMin - 1, TempMin, TargetTempDefault, TempMax, TempMax + 1}

RequestBodies ==
    {Empty}
    \cup {("target_temp" :> t) : t \in SetpointInputs}
    \cup {("eco_temp" :> e) : e \in SetpointInputs}
    \cup {("target_temp" :> t) @@ ("eco_temp" :> e) : t, e \in {TempMin, TempMax}}
    \cup {("eco_temp" :> TempMax + 10) @@ ("target_temp" :> TargetTempDefault)}
    \cup {("mode" :> m) : m \in ThermostatMode \cup {"HEAT"}}
    \cup {("hysteresis" :> h) :
             h \in {HysteresisMin - 1, HysteresisMin, HysteresisMax, HysteresisMax + 1}}
    \cup {("min_on_time" :> d) : d \in {DwellMin - 1, DwellMin, DwellMax, DwellMax + 1}}
    \cup {("min_off_time" :> d) : d \in {DwellMin - 1, DwellMin, DwellMax, DwellMax + 1}}
    \cup {("temp_sample_count" :> n) :
             n \in {SampleCountMin - 1, SampleCountMin, SampleCountMax, SampleCountMax + 1}}
    \cup {("control_interval" :> i) :
             i \in {ControlIntervalMin - 1, ControlIntervalMin, ControlIntervalMax,
                    ControlIntervalMax + 1}}

\* The configuration updates tried while the clock runs and the relay is
\* switched: each mode, and the rejected update with eco_temp above target_temp
ControlRequests ==
    {("mode" :> m) : m \in ThermostatMode}
    \cup {("eco_temp" :> TempMax + 10) @@ ("target_temp" :> TargetTempDefault)}

\* What CONFIG_FILE may hold when the process first starts
InitialFiles ==
    {AbsentFile, CorruptFile}
    \cup {JsonFile(c, s) :
            c \in {Empty,
                   ("target_temp" :> TempMin) @@ ("eco_temp" :> TempMax),
                   ("mode" :> "OFF") @@ ("min_on_time" :> DwellMin)},
            s \in {Empty,
                   [switch_on |-> TRUE, last_switch_change |-> Some(isoformat(0)),
                    last_control_decision |-> Some("Turning ON")]}}

\* thermostat_manager = ThermostatManager(); control_loop_state = {...}
Init ==
    /\ file \in InitialFiles
    /\ config = _load_config(file)
    /\ state = _load_state(file)
    /\ control_loop_state = InitialLoopState
    /\ output \in BOOLEAN
    /\ now = 0
    /\ response = NoResponse
    /\ request = Empty
    /\ updates = << >>
    /\ faults = 0
    /\ loop = NotStarted
    /\ commands = << >>
    /\ iter = NoIteration
    /\ health = None
    /\ served = 0
    /\ call = NoCall
    /\ ret = None
    /\ calls = 0

\* Time passes
Tick ==
    /\ now < MaxTime
    /\ now' = now + 1
    /\ updates' = << >>
    /\ commands' = << >>
    /\ UNCHANGED <<config, state, file, control_loop_state, output, response, request,
                   faults, call, ret, calls, loop, iter, health, served>>

\* The relay is switched from outside the service (the device's button or app)
ExternalToggle ==
    /\ served < MaxRequests
    /\ served' = served + 1
    /\ output' = ~output
    /\ updates' = << >>
    /\ commands' = << >>
    /\ UNCHANGED <<config, state, file, control_loop_state, now, response, request,
                   faults, call, ret, calls, loop, iter, health>>

\* The process stops and starts again: the module's singletons are rebuilt
Restart ==
    /\ config' = _load_config(file)
    /\ state' = _load_state(file)
    /\ control_loop_state' = InitialLoopState
    /\ response' = NoResponse
    /\ request' = Empty
    /\ updates' = << >>
    /\ loop' = NotStarted
    /\ commands' = << >>
    /\ iter' = NoIteration
    /\ health' = None
    /\ UNCHANGED <<file, output, now, faults, call, ret, calls, served>>

\* A _save that fails is drawn from the environment, MaxFaults times at most
MaySave(outcome) == outcome = "ok" \/ faults < MaxFaults

CountFault(failed) == faults' = IF failed THEN faults + 1 ELSE faults

\* POST /api/v1/thermostat/config: the body is validated into a ThermostatConfig
\* (422 when that fails) before the handler runs
set_thermostat_config(body) ==
    LET parsed == ThermostatConfig(body)
    IN  /\ served < MaxRequests
        /\ served' = served + 1
        /\ request' = body
        /\ updates' = << >>
        /\ commands' = << >>
        /\ IF parsed = None
           THEN /\ response' = [handler |-> "set_thermostat_config", status |-> 422]
                /\ UNCHANGED <<config, file, faults>>
           ELSE \E outcome \in SaveOutcomes :
                   /\ MaySave(outcome)
                   /\ set_config(parsed[1], outcome)
                   /\ CountFault(outcome # "ok")
                   /\ response' = [handler |-> "set_thermostat_config",
                                   status |-> IF outcome = "ok" THEN 200 ELSE 500]
        /\ UNCHANGED <<state, control_loop_state, output, now, call, ret, calls,
                       loop, iter, health>>

\* shelly_controller.set_switch(turn_on) when the device answers: the answer
\* acknowledges the command, the relay follows it or stays as it was
set_switch(turn_on, obeys) == output' = IF obeys THEN turn_on ELSE output

\* POST /api/v1/thermostat/switch
control_switch(turn_on) ==
    LET decision == IF turn_on THEN "Manual switch control: ON"
                    ELSE "Manual switch control: OFF"
    IN  /\ served < MaxRequests
        /\ served' = served + 1
        /\ request' = Empty
        /\ \/ \* set_switch raises: the device cannot be reached
              /\ response' = [handler |-> "control_switch", status |-> 503]
              /\ updates' = << >>
              /\ commands' = <<turn_on>>
              /\ UNCHANGED <<state, file, output, faults>>
           \/ \E obeys \in BOOLEAN, outcome \in SaveOutcomes :
                 /\ MaySave(outcome)
                 /\ set_switch(turn_on, obeys)
                 /\ commands' = <<turn_on>>
                 /\ update_state(turn_on, decision, outcome)
                 /\ updates' = <<[switch_on |-> turn_on, decision |-> decision]>>
                 /\ CountFault(UpdateRaises(turn_on, decision, outcome))
                 /\ response' = [handler |-> "control_switch",
                                 status |-> IF UpdateRaises(turn_on, decision, outcome)
                                            THEN 503 ELSE 200]
        /\ UNCHANGED <<config, control_loop_state, now, call, ret, calls,
                       loop, iter, health>>

\* The indoor temperatures the sensor reports: below, inside and above the
\* default deadband
ReadingInputs == {EcoTempDefault - 10, TargetTempDefault, TargetTempDefault + 10}

\* A status request that records the decision it computes
ProjectedRecording(switch_on, reason) ==
    IF reason = None THEN state ELSE StateAfterUpdate(switch_on, reason[1])

\* thermostat_manager.state after a status request: the decision goes into the
\* response and nowhere else
Projected(switch_on, reason) == state

\* The latest indoor temperature the status query returns
StatusReadings == {None} \cup {Some(t) : t \in ReadingInputs}

\* A projection that shows the setback temperature in every mode but AUTO
active_target_setback(cfg) ==
    IF cfg.mode = "AUTO" THEN cfg.target_temp ELSE cfg.eco_temp

\* active_target: target_temp in AUTO, eco_temp in ECO, target_temp in ON and OFF
active_target(cfg) ==
    IF cfg.mode = "AUTO" THEN cfg.target_temp
    ELSE IF cfg.mode = "ECO" THEN cfg.eco_temp
    ELSE cfg.target_temp

\* An unlock time computed with the dwell time of the state the relay is not in
unlock_time_swapped(cfg, last_switch_change, switch_on) ==
    last_switch_change[1]
        + (IF switch_on THEN cfg.min_off_time ELSE cfg.min_on_time) * TicksPerMinute

\* unlock_time = state.last_switch_change + timedelta(minutes=...)
unlock_time(cfg, last_switch_change, switch_on) ==
    last_switch_change[1]
        + (IF switch_on THEN cfg.min_on_time ELSE cfg.min_off_time) * TicksPerMinute

\* The body of the status response for the latest indoor temperature, if any,
\* and the relay state read
ThermostatStatus(current_temp, switch_on) ==
    LET decided == current_temp # None /\ config.mode \in {"AUTO", "ECO"}
        d == calculate_control_decision(
                 current_temp[1], active_target(config), config.hysteresis, switch_on,
                 state.last_switch_change, config.min_on_time, config.min_off_time, now)
        unlock == unlock_time(config, state.last_switch_change, switch_on)
    IN  [config |-> config,
         current_temp |-> current_temp,
         switch_state |-> switch_on,
         active_target |-> active_target(config),
         heating_needed |-> IF decided THEN Some(d.should_be_on) ELSE None,
         reason |-> CASE decided -> Some(d.reason)
                      [] config.mode = "ON" -> Some("Manual override: Switch forced ON")
                      [] config.mode = "OFF" -> Some("Manual override: Switch forced OFF")
                      [] OTHER -> None,
         switch_locked_until |->
             IF decided /\ state.last_switch_change # None /\ unlock > now
             THEN Some(unlock) ELSE None]

\* GET /api/v1/thermostat/status
get_thermostat_status ==
    /\ request' = Empty
    /\ updates' = << >>
    /\ commands' = << >>
    /\ \/ \* query_api.query raises
          /\ response' = [handler |-> "get_thermostat_status", status |-> 500]
          /\ UNCHANGED state
       \/ \* get_switch_status raises
          /\ response' = [handler |-> "get_thermostat_status", status |-> 503]
          /\ UNCHANGED state
       \/ \E temp \in StatusReadings :
             /\ response' = [handler |-> "get_thermostat_status", status |-> 200]
             /\ state' = Projected(output, ThermostatStatus(temp, output).reason)
    /\ UNCHANGED <<config, file, control_loop_state, output, now, faults, call, ret,
                   calls, loop, iter, health, served>>

Next ==
    \/ Tick
    \/ ExternalToggle
    \/ Restart
    \/ \E body \in ControlRequests : set_thermostat_config(body)
    \/ \E turn_on \in BOOLEAN : control_switch(turn_on)
    \/ get_thermostat_status

Spec == Init /\ [][Next]_vars

\* Process starts and configuration updates alone, over every request body
NextConfig ==
    \/ Restart
    \/ \E body \in RequestBodies : set_thermostat_config(body)

SpecConfig == Init /\ [][NextConfig]_vars

\* Where in _save the process may die: before open(self.config_file, 'w'),
\* between the open, which empties the file, and the end of json.dump, or
\* after the dump
SavePoints == {"before", "during", "after"}

\* What the file holds when the process dies at that point of saving c and s
Interrupted(point, c, s) ==
    CASE point = "before" -> file
      [] point = "during" -> CorruptFile
      [] OTHER -> JsonFile(c, state_dict(s))

\* The process dies inside the _save of a configuration update and is started
\* again: the singletons are rebuilt from what the file then holds
crash_in_save(body) ==
    LET parsed == ThermostatConfig(body)
    IN  /\ parsed # None
        /\ served < MaxRequests
        /\ served' = served + 1
        /\ \E point \in SavePoints : file' = Interrupted(point, parsed[1], state)
        /\ config' = _load_config(file')
        /\ state' = _load_state(file')
        /\ control_loop_state' = InitialLoopState
        /\ response' = [handler |-> "crash_in_save", status |-> 0]
        /\ request' = body
        /\ updates' = << >>
        /\ loop' = NotStarted
        /\ commands' = << >>
        /\ iter' = NoIteration
        /\ health' = None
        /\ UNCHANGED <<output, now, faults, call, ret, calls>>

\* The handlers that save, process starts and crashes while saving
NextStorage ==
    \/ Tick
    \/ Restart
    \/ \E body \in ControlRequests : set_thermostat_config(body)
    \/ \E turn_on \in BOOLEAN : control_switch(turn_on)
    \/ \E body \in ControlRequests : crash_in_save(body)

SpecStorage == Init /\ [][NextStorage]_vars

-----------------------------------------------------------------------------
(* thermostat_control_loop.  Every call the loop makes is synchronous, so an *)
(* iteration runs without interruption up to an await: LoopBegin is the      *)
(* iteration from its start to `await asyncio.sleep(0.2)` after a set_switch *)
(* or, when none is issued, to the sleep that ends it; LoopVerify is the     *)
(* rest of an iteration that commanded the relay.                            *)

\* What the sensor has stored in the last five minutes, newest samples last:
\* nothing, one sample, or two samples with a mean below the default deadband
Samples ==
    {<< >>}
    \cup {<<t>> : t \in ReadingInputs}
    \cup {<<EcoTempDefault - 10, TargetTempDefault + 10>>}

\* query_api.query(temp_query) with limit(n: sample_count): the newest
\* sample_count samples at most
Readings(sample_count) == {temps \in Samples : Len(temps) <= sample_count}

RECURSIVE Sum(_)
Sum(temps) == IF temps = << >> THEN 0 ELSE Head(temps) + Sum(Tail(temps))

\* The newest sample alone
indoor_temp_latest(temps) == IF temps # << >> THEN Some(temps[Len(temps)]) ELSE None

\* indoor_temp = sum(temps) / len(temps) if temps else None; the quotient is
\* exact for every member of Samples
indoor_temp(temps) == IF temps # << >> THEN Some(Sum(temps) \div Len(temps)) ELSE None

\* A duration in seconds, in ticks
Seconds(s) == (s * TicksPerMinute) \div 60

\* await asyncio.sleep(sleep_time) with the control_interval read after the
\* iteration
Sleeping ==
    [pc |-> "sleep", branch |-> "none", should_be_on |-> FALSE, reason |-> "none",
     wake |-> now + Seconds(get_config.control_interval)]

\* await asyncio.sleep(0.2) between set_switch and the verifying read
Settling(branch, should_be_on, reason) ==
    [pc |-> "settle", branch |-> branch, should_be_on |-> should_be_on,
     reason |-> reason, wake |-> 0]

\* A verification that accepts whatever the relay reports
VerifiedAlways(actual_state, should_be_on) == TRUE

\* if actual_state == should_be_on
Verified(actual_state, should_be_on) == actual_state = should_be_on

\* control_loop_state["last_error"] = ...; control_loop_state["consecutive_errors"] += 1
Recorded(cls, error) ==
    [cls EXCEPT !.last_error = Some(error), !.consecutive_errors = @ + 1]

\* except Exception as e: logger.error(...) inside the ON and OFF branches
Swallowed(cls, error) == cls

\* if control_loop_state["consecutive_errors"] >= 5
CriticalThreshold == 5

\* The record of an iteration as it begins: the samples it reads (none before
\* the read), how it ended, how many iterations in a row have ended with an
\* error, the value of consecutive_errors it started with (while it waits for
\* the relay to settle), how many times it called get_switch_status, whether
\* it called logger.critical, and when the loop last verified a switch of the
\* relay it had commanded in AUTO or ECO
Begun ==
    [temps |-> << >>, outcome |-> "settling", failures |-> iter.failures,
     errors_before |-> control_loop_state.consecutive_errors,
     reads |-> 0, critical |-> FALSE, flip |-> iter.flip]

\* The iteration has called get_switch_status once more
Reading(it) == [it EXCEPT !.reads = @ + 1]

\* except Exception as e: ... if control_loop_state["consecutive_errors"] >= 5:
\*     logger.critical(...)
Critical(cls, it) ==
    it.outcome = "exception" /\ cls.consecutive_errors >= CriticalThreshold

\* The record of an iteration as it ends
Ended(it, outcome) ==
    [it EXCEPT !.outcome = outcome,
               !.failures = IF outcome = "ok" THEN 0 ELSE @ + 1,
               !.errors_before = 0]

\* An iteration whose exception ends the task
FinishStops(cls, it) ==
    /\ control_loop_state' = cls
    /\ loop' = IF it.outcome = "exception"
               THEN [pc |-> "stopped", branch |-> "none", should_be_on |-> FALSE,
                     reason |-> "none", wake |-> 0]
               ELSE Sleeping
    /\ iter' = [it EXCEPT !.critical = Critical(cls, it)]

\* The iteration is over: the loop sleeps until the next one
Finish(cls, it) ==
    /\ control_loop_state' = cls
    /\ loop' = Sleeping
    /\ iter' = [it EXCEPT !.critical = Critical(cls, it)]

NoCommand == commands' = << >> /\ UNCHANGED output

NoUpdate == updates' = << >> /\ UNCHANGED <<state, file, faults>>

\* An update by the loop that records the decision and keeps the switch_on
\* the ThermostatState holds
UpdateDecisionOnly(switch_on, decision, outcome) ==
    /\ MaySave(outcome)
    /\ update_state(state.switch_on, decision, outcome)
    /\ updates' = <<[switch_on |-> state.switch_on, decision |-> decision]>>
    /\ CountFault(UpdateRaises(state.switch_on, decision, outcome))

\* thermostat_manager.update_state(switch_on, decision) called by the loop
Update(switch_on, decision, outcome) ==
    /\ MaySave(outcome)
    /\ update_state(switch_on, decision, outcome)
    /\ updates' = <<[switch_on |-> switch_on, decision |-> decision]>>
    /\ CountFault(UpdateRaises(switch_on, decision, outcome))

LoopFrame ==
    /\ response' = [handler |-> "thermostat_control_loop", status |-> 0]
    /\ request' = Empty
    /\ health' = None
    /\ UNCHANGED <<config, now, call, ret, calls, served>>

\* An entry action that is never taken to be done
EntryPendingAlways(cls) == TRUE

\* if not control_loop_state["mode_action_done"]
EntryPending(cls) == ~cls.mode_action_done

ManualDecision(want) == IF want THEN "Manual mode: ON" ELSE "Manual mode: OFF"

\* The ON and OFF branches up to the settle delay
ManualBegin(cfg, cls, it) ==
    LET want == cfg.mode = "ON"
    IN  \/ \* get_switch_status raises, outside the inner try
           /\ NoCommand
           /\ NoUpdate
           /\ Finish(Recorded(cls, "Error getting switch status"),
                     Ended(Reading(it), "exception"))
        \/ \* set_switch raises
           /\ EntryPending(cls)
           /\ commands' = <<want>>
           /\ UNCHANGED output
           /\ NoUpdate
           /\ Finish(Swallowed(cls, "Error setting switch"), Ended(Reading(it), "swallowed"))
        \/ \* set_switch is acknowledged
           /\ EntryPending(cls)
           /\ \E obeys \in BOOLEAN : set_switch(want, obeys)
           /\ commands' = <<want>>
           /\ NoUpdate
           /\ control_loop_state' = cls
           /\ loop' = Settling("manual", want, ManualDecision(want))
           /\ iter' = Reading(it)
        \/ \* the entry action is done: monitor and log
           /\ ~EntryPending(cls)
           /\ NoCommand
           /\ NoUpdate
           /\ Finish(cls, Ended(Reading(it), "ok"))

\* A loop that commands the relay in every iteration
NeedsSwitchAlways(should_be_on, current_switch_on) == TRUE

\* if should_be_on != current_switch_on:
NeedsSwitch(should_be_on, current_switch_on) == should_be_on # current_switch_on

\* The AUTO and ECO branch up to the settle delay
AutoBegin(cfg, cls, it) ==
    \/ \* query_api.query raises
       /\ NoCommand
       /\ NoUpdate
       /\ Finish(Recorded(cls, "query failed"), Ended(it, "exception"))
    \/ \E temps \in Readings(cfg.temp_sample_count) :
          IF indoor_temp(temps) = None
          THEN /\ NoCommand
               /\ NoUpdate
               /\ Finish(Recorded(cls, "No indoor temperature data"), Ended(it, "no_data"))
          ELSE LET cleared == [cls EXCEPT !.last_error = None, !.consecutive_errors = 0]
                   temp == indoor_temp(temps)[1]
                   target == IF cfg.mode = "AUTO" THEN cfg.target_temp ELSE cfg.eco_temp
                   d == calculate_control_decision(
                            temp, target, cfg.hysteresis, output, state.last_switch_change,
                            cfg.min_on_time, cfg.min_off_time, now)
                   read == Reading([it EXCEPT !.temps = temps])
               IN  \/ \* get_switch_status raises
                      /\ NoCommand
                      /\ NoUpdate
                      /\ Finish(Recorded(cleared, "Error getting switch status"),
                                Ended(read, "exception"))
                   \/ \* set_switch raises
                      /\ NeedsSwitch(d.should_be_on, output)
                      /\ commands' = <<d.should_be_on>>
                      /\ UNCHANGED output
                      /\ NoUpdate
                      /\ Finish(Recorded(cleared, "Error setting switch"),
                                Ended(read, "exception"))
                   \/ \* set_switch is acknowledged
                      /\ NeedsSwitch(d.should_be_on, output)
                      /\ \E obeys \in BOOLEAN : set_switch(d.should_be_on, obeys)
                      /\ commands' = <<d.should_be_on>>
                      /\ NoUpdate
                      /\ control_loop_state' = cleared
                      /\ loop' = Settling("auto", d.should_be_on, d.reason)
                      /\ iter' = read
                   \/ \* no change: the decision is logged in the state
                      /\ ~NeedsSwitch(d.should_be_on, output)
                      /\ NoCommand
                      /\ \E outcome \in SaveOutcomes :
                            /\ Update(output, d.reason, outcome)
                            /\ IF UpdateRaises(output, d.reason, outcome)
                               THEN Finish(Recorded(cleared, "Error saving config"),
                                           Ended(read, "exception"))
                               ELSE Finish(cleared, Ended(read, "ok"))

\* A loop that takes no mode for changed while it has not recorded one
ModeChangedSinceRecorded(cls, cfg) ==
    cls.last_mode # None /\ cls.last_mode # Some(cfg.mode)

\* if control_loop_state["last_mode"] != config.mode:
ModeChanged(cls, cfg) == cls.last_mode # Some(cfg.mode)

\* An iteration from `control_loop_state["last_run"] = datetime.utcnow()` on;
\* the first one follows `control_loop_state["running"] = True`
LoopBegin ==
    /\ loop.pc = "created" \/ (loop.pc = "sleep" /\ now >= loop.wake)
    /\ LET cfg == get_config
           started == [control_loop_state EXCEPT
                          !.running = IF loop.pc = "created" THEN TRUE ELSE @,
                          !.last_run = Some(now)]
           cls == IF ModeChanged(started, cfg)
                  THEN [started EXCEPT !.last_mode = Some(cfg.mode),
                                       !.mode_action_done = FALSE]
                  ELSE started
       IN  IF cfg.mode \in {"ON", "OFF"}
           THEN ManualBegin(cfg, cls, Begun)
           ELSE AutoBegin(cfg, cls, Begun)
    /\ LoopFrame

\* An iteration that reads the configuration again after the settle delay
ResumedReconfigured ==
    IF config.mode \in {"ON", "OFF"}
    THEN [loop EXCEPT !.branch = "manual", !.should_be_on = (config.mode = "ON"),
                      !.reason = ManualDecision(config.mode = "ON")]
    ELSE [loop EXCEPT !.branch = "auto"]

\* The iteration's local variables when it resumes after the settle delay:
\* the branch it is in, should_be_on and reason are those it had before
Resumed == loop

\* The ON and OFF branches after the settle delay
ManualVerify ==
    LET want == Resumed.should_be_on
        cls == control_loop_state
    IN  \/ \* get_switch_status raises
           /\ NoUpdate
           /\ Finish(Swallowed(cls, "Error getting switch status"),
                     Ended(Reading(iter), "swallowed"))
        \/ /\ output = want
           /\ \E outcome \in SaveOutcomes :
                 /\ Update(want, Resumed.reason, outcome)
                 /\ IF UpdateRaises(want, Resumed.reason, outcome)
                    THEN Finish(Swallowed(cls, "Error saving config"),
                                Ended(Reading(iter), "swallowed"))
                    ELSE Finish([cls EXCEPT !.mode_action_done = TRUE],
                                Ended(Reading(iter), "ok"))
        \/ \* the relay is not as commanded: nothing is done
           /\ output # want
           /\ NoUpdate
           /\ Finish(cls, Ended(Reading(iter), "unverified"))

\* The AUTO and ECO branch after the settle delay
AutoVerify ==
    LET should_be_on == Resumed.should_be_on
        cls == control_loop_state
    IN  \/ \* get_switch_status raises
           /\ NoUpdate
           /\ Finish(Recorded(cls, "Error getting switch status"),
                     Ended(Reading(iter), "exception"))
        \/ /\ Verified(output, should_be_on)
           /\ \E outcome \in SaveOutcomes :
                 /\ Update(should_be_on, Resumed.reason, outcome)
                 /\ IF UpdateRaises(should_be_on, Resumed.reason, outcome)
                    THEN Finish(Recorded(cls, "Error saving config"),
                                Ended(Reading(iter), "exception"))
                    ELSE Finish(cls, Ended([Reading(iter) EXCEPT !.flip = Some(now)], "ok"))
        \/ /\ ~Verified(output, should_be_on)
           /\ NoUpdate
           /\ Finish(Recorded(cls, "Switch verification failed"),
                     Ended(Reading(iter), "mismatch"))

\* An iteration from the verifying get_switch_status on
LoopVerify ==
    /\ loop.pc = "settle"
    /\ IF Resumed.branch = "manual" THEN ManualVerify ELSE AutoVerify
    /\ NoCommand
    /\ LoopFrame

\* What CONFIG_FILE may hold when the process first starts: nothing, or a
\* configuration with the shortest dwell times and control interval and the
\* fewest samples
LoopFiles ==
    {AbsentFile,
     JsonFile(("min_on_time" :> DwellMin) @@ ("min_off_time" :> DwellMin)
                  @@ ("control_interval" :> ControlIntervalMin)
                  @@ ("temp_sample_count" :> SampleCountMin), Empty)}

\* The configuration updates tried while the loop runs
LoopRequests ==
    {("mode" :> m) @@ ("min_on_time" :> DwellMin) @@ ("min_off_time" :> DwellMin)
         @@ ("control_interval" :> ControlIntervalMin) : m \in ThermostatMode}

InitLoop ==
    /\ file \in LoopFiles
    /\ config = _load_config(file)
    /\ state = _load_state(file)
    /\ control_loop_state = InitialLoopState
    /\ output \in BOOLEAN
    /\ now = 0
    /\ response = NoResponse
    /\ request = Empty
    /\ updates = << >>
    /\ faults = 0
    /\ call = NoCall
    /\ ret = None
    /\ calls = 0
    /\ loop = NotStarted
    /\ commands = << >>
    /\ iter = NoIteration
    /\ health = None
    /\ served = 0

NextLoop ==
    \/ Tick
    \/ ExternalToggle
    \/ LoopBegin
    \/ LoopVerify
    \/ \E body \in LoopRequests : set_thermostat_config(body)

SpecLoop == InitLoop /\ [][NextLoop]_vars

\* The loop with the manual switch endpoint: CONFIG_FILE holds any mode, with
\* the shortest dwell times and control interval
ManualFiles ==
    {JsonFile(body, Empty) : body \in LoopRequests}

InitManual ==
    /\ file \in ManualFiles
    /\ config = _load_config(file)
    /\ state = _load_state(file)
    /\ control_loop_state = InitialLoopState
    /\ output \in BOOLEAN
    /\ now = 0
    /\ response = NoResponse
    /\ request = Empty
    /\ updates = << >>
    /\ faults = 0
    /\ call = NoCall
    /\ ret = None
    /\ calls = 0
    /\ loop = NotStarted
    /\ commands = << >>
    /\ iter = NoIteration
    /\ health = None
    /\ served = 0

NextManual ==
    \/ Tick
    \/ ExternalToggle
    \/ LoopBegin
    \/ LoopVerify
    \/ \E turn_on \in BOOLEAN : control_switch(turn_on)

SpecManual == InitManual /\ [][NextManual]_vars

\* The loop with process restarts: CONFIG_FILE holds any mode and no request
\* changes it
NextRestart ==
    \/ Tick
    \/ Restart
    \/ LoopBegin
    \/ LoopVerify

SpecRestart == InitManual /\ [][NextRestart]_vars

\* The loop alone, with the scheduling the event loop gives it: time passes,
\* a sleep that has ended returns, the task is resumed
NextLive ==
    \/ Tick
    \/ ExternalToggle
    \/ LoopBegin
    \/ LoopVerify

SpecLive ==
    InitLoop /\ [][NextLive]_vars
        /\ WF_vars(Tick) /\ WF_vars(LoopBegin) /\ WF_vars(LoopVerify)

-----------------------------------------------------------------------------
(* GET /health *)

\* if last_run and (now - last_run).total_seconds() > 360: control_loop_healthy = False
control_loop_healthy(last_run, utcnow) ==
    ~(last_run # None /\ (utcnow - last_run[1]) * 60 > StaleAfter * TicksPerMinute)

health_check ==
    \E influxdb_connected \in BOOLEAN, shelly_connected \in BOOLEAN :
        LET last_run == control_loop_state.last_run
            error == control_loop_state.last_error
            is_healthy == /\ influxdb_connected
                          /\ shelly_connected
                          /\ control_loop_healthy(last_run, now)
                          /\ error = None
        IN  /\ health' = Some([status |-> IF is_healthy THEN "healthy" ELSE "unhealthy",
                               timestamp |-> now,
                               influxdb_connected |-> influxdb_connected,
                               shelly_connected |-> shelly_connected,
                               control_loop_running |-> control_loop_state.running,
                               last_control_loop_run |-> last_run,
                               control_loop_error |-> error])
            /\ response' = [handler |-> "health_check", status |-> 200]
            /\ request' = Empty
            /\ updates' = << >>
            /\ commands' = << >>
            /\ UNCHANGED <<config, state, file, control_loop_state, output, now, faults,
                           call, ret, calls, loop, iter, served>>

\* The clock runs long enough for a run to be older than StaleAfter seconds
HealthHorizon == Seconds(StaleAfter) + 2

\* A minute passes, which the settle delay of 0.2 seconds never spans
Elapse ==
    /\ now < HealthHorizon
    /\ loop.pc # "settle"
    /\ now' = now + TicksPerMinute
    /\ updates' = << >>
    /\ commands' = << >>
    /\ health' = None
    /\ UNCHANGED <<config, state, file, control_loop_state, output, response, request,
                   faults, call, ret, calls, loop, iter, served>>

\* What CONFIG_FILE may hold when the process first starts: nothing, or the
\* longest control interval
HealthFiles ==
    {AbsentFile, JsonFile(("control_interval" :> ControlIntervalMax), Empty)}

InitHealth ==
    /\ file \in HealthFiles
    /\ config = _load_config(file)
    /\ state = _load_state(file)
    /\ control_loop_state = InitialLoopState
    /\ output \in BOOLEAN
    /\ now = 0
    /\ response = NoResponse
    /\ request = Empty
    /\ updates = << >>
    /\ faults = 0
    /\ call = NoCall
    /\ ret = None
    /\ calls = 0
    /\ loop = NotStarted
    /\ commands = << >>
    /\ iter = NoIteration
    /\ health = None
    /\ served = 0

NextHealth ==
    \/ Elapse
    \/ LoopBegin
    \/ LoopVerify
    \/ health_check

SpecHealth == InitHealth /\ [][NextHealth]_vars

\* The loop over several minutes in AUTO with the configuration held fixed:
\* CONFIG_FILE holds the shortest control interval and the default dwell times,
\* the relay may have been toggled from outside before the process starts
LongFiles == {JsonFile(("control_interval" :> ControlIntervalMin), Empty)}

InitLong ==
    /\ file \in LongFiles
    /\ config = _load_config(file)
    /\ state = _load_state(file)
    /\ control_loop_state = InitialLoopState
    /\ output \in BOOLEAN
    /\ now = 0
    /\ response = NoResponse
    /\ request = Empty
    /\ updates = << >>
    /\ faults = 0
    /\ call = NoCall
    /\ ret = None
    /\ calls = 0
    /\ loop = NotStarted
    /\ commands = << >>
    /\ iter = NoIteration
    /\ health = None
    /\ served = 0

NextLong ==
    \/ Elapse
    \/ LoopBegin
    \/ LoopVerify

SpecLong == InitLong /\ [][NextLong]_vars

\* A shutdown that empties the loop's health record
StoppedForgetting(cls) == InitialLoopState

\* control_loop_state["running"] = False
Stopped(cls) == [cls EXCEPT !.running = FALSE]

\* @app.on_event("shutdown"): the process ends, and the loop's task with it
shutdown_event ==
    /\ loop.pc # "stopped"
    /\ control_loop_state' = Stopped(control_loop_state)
    /\ loop' = [loop EXCEPT !.pc = "stopped"]
    /\ response' = [handler |-> "shutdown_event", status |-> 0]
    /\ request' = Empty
    /\ updates' = << >>
    /\ commands' = << >>
    /\ health' = None
    /\ UNCHANGED <<config, state, file, output, now, faults, call, ret, calls, iter, served>>

\* The application from startup_event, which creates the loop's task, to
\* shutdown_event, within the first control interval: the loop's first
\* iteration runs next to the four request handlers for as long as the
\* process serves
Serving == loop.pc # "stopped"

ServiceRequests ==
    {("mode" :> m) @@ ("control_interval" :> ControlIntervalMin) : m \in {"ON", "ECO"}}

InitService ==
    /\ file = AbsentFile
    /\ config = _load_config(file)
    /\ state = _load_state(file)
    /\ control_loop_state = InitialLoopState
    /\ output \in BOOLEAN
    /\ now = 0
    /\ response = NoResponse
    /\ request = Empty
    /\ updates = << >>
    /\ faults = 0
    /\ call = NoCall
    /\ ret = None
    /\ calls = 0
    /\ loop = NotStarted
    /\ commands = << >>
    /\ iter = NoIteration
    /\ health = None
    /\ served = 0

NextService ==
    \/ Serving /\ LoopBegin
    \/ Serving /\ LoopVerify
    \/ Serving /\ \E body \in ServiceRequests : set_thermostat_config(body)
    \/ Serving /\ \E turn_on \in BOOLEAN : control_switch(turn_on)
    \/ Serving /\ get_thermostat_status
    \/ Serving /\ health_check
    \/ shutdown_event

SpecService == InitService /\ [][NextService]_vars

\* The status request next to the requests that change what it projects:
\* configuration updates with the shortest dwell times, manual switch requests
\* and outside switchings, while the clock runs
NextStatus ==
    \/ Tick
    \/ ExternalToggle
    \/ \E body \in LoopRequests : set_thermostat_config(body)
    \/ \E turn_on \in BOOLEAN : control_switch(turn_on)
    \/ get_thermostat_status

SpecStatus == InitLoop /\ [][NextStatus]_vars

-----------------------------------------------------------------------------
(* Properties of the decision function (under SpecDecision) *)

Returned == ret # None
Decision == ret[1]
Flip == Decision.should_be_on # call.current_switch_on
NoHistory == call.last_switch_change = None
\* ticks since the recorded change, when there is one
DwellTicks == now - call.last_switch_change[1]
DwellReached(minutes) == ~NoHistory /\ DwellTicks >= minutes * TicksPerMinute
Low == call.target_temp - call.hysteresis
High == call.target_temp + call.hysteresis

\* C1: the decision differs from the actuator state only when the dwell
\* constraint of that direction is met: ON for an OFF actuator only with no
\* recorded change or at least min_off_time minutes since it, OFF for an ON
\* actuator only with no recorded change or at least min_on_time minutes.
C1_DwellGuardsEveryFlip ==
    Returned /\ Flip =>
        IF call.current_switch_on
        THEN NoHistory \/ DwellReached(call.min_on_time)
        ELSE NoHistory \/ DwellReached(call.min_off_time)

C1_Witness ==
    /\ Returned /\ Flip /\ ~NoHistory
    /\ ~call.current_switch_on
    /\ DwellReached(call.min_off_time) /\ ~DwellReached(call.min_on_time)

\* C2: for a temperature in [target - hysteresis, target + hysteresis) the
\* decision is the actuator state that was passed in, for both states and
\* every dwell time.
C2_HysteresisContainment ==
    Returned /\ call.hysteresis > 0 /\ Low <= call.current_temp /\ call.current_temp < High
        => Decision.should_be_on = call.current_switch_on

C2_Witness ==
    /\ Returned /\ call.current_switch_on
    /\ call.current_temp > call.target_temp /\ call.current_temp < High
    /\ DwellReached(call.min_on_time) /\ DwellReached(call.min_off_time)
    /\ Decision.should_be_on

\* C3: OFF and below target - hysteresis: OFF while the dwell is under
\* min_off_time, ON once it is reached; ON and at or above target + hysteresis:
\* ON while the dwell is under min_on_time, OFF once it is reached.
C3_DwellEnforcement ==
    Returned /\ ~NoHistory =>
        /\ (~call.current_switch_on /\ call.current_temp < Low)
              => (Decision.should_be_on <=> DwellReached(call.min_off_time))
        /\ (call.current_switch_on /\ call.current_temp >= High)
              => (~Decision.should_be_on <=> DwellReached(call.min_on_time))

C3_Witness ==
    /\ Returned /\ ~NoHistory
    /\ call.current_switch_on /\ call.current_temp >= High
    /\ DwellTicks = call.min_on_time * TicksPerMinute
    /\ ~Decision.should_be_on

\* C4: at target + hysteresis the decision is that of the reached branch, at
\* target - hysteresis that of the deadband: the deadband is [low, high).
ReachedReasons == {"Target reached", "Turning OFF", "Target reached but locked ON"}
DeadbandReasons == {"in deadband, maintaining ON", "in deadband, maintaining OFF"}

C4_Boundary ==
    Returned =>
        /\ call.current_temp = High => Decision.reason \in ReachedReasons
        /\ call.current_temp = Low =>
              /\ Decision.reason \in DeadbandReasons
              /\ Decision.should_be_on = call.current_switch_on

C4_Witness ==
    /\ Returned /\ call.current_temp = High /\ call.current_switch_on
    /\ Decision.reason = "Turning OFF"

\* The call of the example: target 22.0, hysteresis 0.5, 21.5 measured, the
\* actuator OFF and no recorded change
C5_Example ==
    /\ call.target_temp = 220 /\ call.hysteresis = 5 /\ call.current_temp = 215
    /\ ~call.current_switch_on /\ NoHistory

\* C5 as stated: the example call returns ON with a 'Turning ON' reason.
C5_Original ==
    Returned /\ C5_Example =>
        Decision.should_be_on /\ Decision.reason = "Turning ON"

\* C5 as amended: the example call returns OFF, with the deadband's reason
\* (21.5 is the inclusive lower end of the deadband); one tenth of a degree
\* lower, at 21.4, it returns ON with a 'Turning ON' reason.
C5_ExampleHoldsOff ==
    /\ Returned /\ C5_Example =>
          ~Decision.should_be_on /\ Decision.reason = "in deadband, maintaining OFF"
    /\ Returned /\ call.target_temp = 220 /\ call.hysteresis = 5
          /\ call.current_temp = 214 /\ ~call.current_switch_on /\ NoHistory
          => Decision.should_be_on /\ Decision.reason = "Turning ON"

C5_Witness == Returned /\ C5_Example /\ call.min_off_time = DwellMax

\* C6: with no recorded change, OFF below target - hysteresis gives ON and ON
\* at or above target + hysteresis gives OFF, whatever min_on_time and
\* min_off_time are.
C6_NoHistoryUnrestricted ==
    Returned /\ NoHistory =>
        /\ (~call.current_switch_on /\ call.current_temp < Low) => Decision.should_be_on
        /\ (call.current_switch_on /\ call.current_temp >= High) => ~Decision.should_be_on

C6_Witness ==
    /\ Returned /\ NoHistory /\ call.current_switch_on /\ call.current_temp >= High
    /\ call.min_on_time = DwellMax /\ call.min_off_time = DwellMin
    /\ ~Decision.should_be_on

-----------------------------------------------------------------------------
(* Properties of ThermostatManager and the configuration handler *)

\* C8: a call of update_state whose switch_on argument equals the stored
\* switch_on leaves last_switch_change (and switch_on) as they were; a call
\* whose argument differs sets switch_on to the argument and last_switch_change
\* to the time of the call.
C8_UpdateStateStampsOnlyFlips ==
    [][updates' # << >> =>
          IF updates'[1].switch_on = state.switch_on
          THEN /\ state'.last_switch_change = state.last_switch_change
               /\ state'.switch_on = state.switch_on
          ELSE /\ state'.switch_on = updates'[1].switch_on
               /\ state'.last_switch_change = Some(now)]_vars

\* A call that repeated the stored switch state well after the flip: the
\* decision text is the call's, the time of the flip is still the earlier one
C8_Witness ==
    /\ updates # << >>
    /\ updates[1] = [switch_on |-> FALSE, decision |-> "Manual switch control: OFF"]
    /\ state.last_control_decision = Some("Manual switch control: OFF")
    /\ ~state.switch_on
    /\ state.last_switch_change # None
    /\ state.last_switch_change[1] > 0
    /\ state.last_switch_change[1] < now

\* The value a request body gives a field: the key's value, or the default
Requested(body, f) == IF f \in DOMAIN body THEN body[f] ELSE DefaultConfig[f]

\* The body violates a bound, names no mode, or has eco_temp > target_temp
ViolatesRules(body) ==
    \/ Requested(body, "target_temp") < 180 \/ Requested(body, "target_temp") > 240
    \/ Requested(body, "eco_temp") < 180 \/ Requested(body, "eco_temp") > 240
    \/ Requested(body, "eco_temp") > Requested(body, "target_temp")
    \/ Requested(body, "mode") \notin {"AUTO", "ECO", "ON", "OFF"}
    \/ Requested(body, "hysteresis") < 1 \/ Requested(body, "hysteresis") > 20
    \/ Requested(body, "min_on_time") < 1 \/ Requested(body, "min_on_time") > 120
    \/ Requested(body, "min_off_time") < 1 \/ Requested(body, "min_off_time") > 120
    \/ Requested(body, "temp_sample_count") < 1 \/ Requested(body, "temp_sample_count") > 10
    \/ Requested(body, "control_interval") < 60 \/ Requested(body, "control_interval") > 600

\* C9: a configuration update that violates a bound or has eco_temp >
\* target_temp is rejected as a whole: the configuration, and the file, are
\* after the request exactly what they were before it.
C9_RejectedUpdateLeavesConfig ==
    [][response'.handler = "set_thermostat_config" /\ ViolatesRules(request') =>
          /\ response'.status = 422
          /\ config' = config
          /\ file' = file]_vars

\* The update eco_temp=25, target_temp=22 rejected while a configuration that
\* is not the default one is active
C9_Witness ==
    /\ response = [handler |-> "set_thermostat_config", status |-> 422]
    /\ request = ("eco_temp" :> 250) @@ ("target_temp" :> 220)
    /\ config.mode = "ECO"

\* C10: the active configuration always satisfies
\* 18 <= eco_temp <= target_temp <= 24, min_on_time and min_off_time in
\* [1,120], temp_sample_count in [1,10], control_interval in [60,600] and mode
\* in {AUTO, ECO, ON, OFF}.
C10_ConfigWithinBounds ==
    /\ 180 <= config.eco_temp
    /\ config.eco_temp <= config.target_temp
    /\ config.target_temp <= 240
    /\ config.min_on_time \in 1..120
    /\ config.min_off_time \in 1..120
    /\ config.temp_sample_count \in 1..10
    /\ config.control_interval \in 60..600
    /\ config.mode \in {"AUTO", "ECO", "ON", "OFF"}

\* An accepted update with both setpoints at the upper bound, then a rejected
\* one that leaves it active
C10_Witness ==
    /\ config.eco_temp = 240 /\ config.target_temp = 240
    /\ response = [handler |-> "set_thermostat_config", status |-> 422]
    /\ file.kind = "json"

-----------------------------------------------------------------------------
(* Properties of the control loop and of the switch, status and health      *)
(* handlers                                                                 *)

\* A step of the loop that begins an iteration, one that resumes it after the
\* settle delay, and one after which the iteration is over
LoopBeginStep == loop.pc # "settle" /\ loop' # loop /\ loop'.pc # "created"

LoopVerifyStep == loop.pc = "settle" /\ loop'.pc = "sleep"

IterationEnds == (LoopBeginStep \/ LoopVerifyStep) /\ loop'.pc = "sleep"

Manual == {"ON", "OFF"}

Automatic == {"AUTO", "ECO"}

\* consecutive_errors when the iteration that ends in this step began
ErrorsBefore ==
    IF LoopBeginStep THEN control_loop_state.consecutive_errors ELSE iter.errors_before

\* C11: in AUTO and ECO, when the relay does not report the commanded state
\* after an acknowledged set_switch, the verifying step records an error in
\* last_error, adds one to consecutive_errors and leaves the ThermostatState
\* and the file as they were; and the iteration that follows a mismatch decides
\* from the relay's reported state and the unchanged last_switch_change, and
\* commands the relay again whenever that decision differs from the reported
\* state.
C11_VerificationMismatch ==
    [][/\ (LoopVerifyStep /\ loop.branch = "auto" /\ output # loop.should_be_on)
          => /\ control_loop_state'.last_error # None
             /\ control_loop_state'.consecutive_errors
                    = control_loop_state.consecutive_errors + 1
             /\ state' = state
             /\ file' = file
       /\ (/\ LoopBeginStep
           /\ iter.outcome = "mismatch"
           /\ config.mode \in Automatic
           /\ iter'.temps # << >>
           /\ control_loop_state'.last_error # Some("Error getting switch status"))
          => LET d == calculate_control_decision(
                          indoor_temp(iter'.temps)[1],
                          IF config.mode = "AUTO" THEN config.target_temp
                          ELSE config.eco_temp,
                          config.hysteresis, output, state.last_switch_change,
                          config.min_on_time, config.min_off_time, now)
             IN  commands' = IF d.should_be_on # output THEN <<d.should_be_on>>
                             ELSE << >>]_vars

C11_Witness ==
    /\ iter.outcome = "mismatch"
    /\ loop.pc = "sleep"
    /\ control_loop_state.last_error = Some("Switch verification failed")
    /\ control_loop_state.consecutive_errors = 1
    /\ state = DefaultState
    /\ config.mode \in Automatic

\* C12 as stated: in mode ON or OFF, an iteration that reads the mode it read
\* last time issues no set_switch command.
C12_Original ==
    [][(/\ LoopBeginStep
        /\ config.mode \in Manual
        /\ control_loop_state.last_mode = Some(config.mode))
       => commands' = << >>]_vars

\* C12: in mode ON or OFF, an iteration that can read the relay commands it to
\* the mode's state for as long as no such command has been verified since
\* the mode was entered; once one has been verified (mode_action_done) no
\* iteration issues a set_switch command while the mode stays the same.
C12_OneVerifiedEntry ==
    [][(LoopBeginStep /\ config.mode \in Manual)
       => IF /\ control_loop_state.last_mode = Some(config.mode)
             /\ control_loop_state.mode_action_done
          THEN commands' = << >>
          ELSE iter'.outcome # "exception" => commands' = <<config.mode = "ON">>]_vars

C12_Witness ==
    /\ config.mode \in Manual
    /\ control_loop_state.last_mode = Some(config.mode)
    /\ control_loop_state.mode_action_done
    /\ response.handler = "thermostat_control_loop"
    /\ loop.pc = "sleep"
    /\ iter.outcome = "ok"
    /\ updates = << >>
    /\ commands = << >>
    /\ output # (config.mode = "ON")

\* C13: once an iteration in mode ON (OFF) has switched the relay and verified
\* it, the relay is on (off) at the end of every later iteration that finds the
\* mode unchanged and the relay reachable.
C13_ManualModeForces ==
    [][(/\ IterationEnds
        /\ iter'.outcome = "ok"
        /\ config.mode \in Manual
        /\ control_loop_state.last_mode = Some(config.mode)
        /\ control_loop_state.mode_action_done)
       => output' = (config.mode = "ON")]_vars

\* A step of control_switch
SwitchStep == response'.handler = "control_switch" /\ commands' # << >>

\* C14: a manual switch request commands the relay to turn_on and leaves the
\* configuration and the loop's health record as they were; when it answers
\* 200 the ThermostatState holds turn_on, and the file holds that state when
\* the request changed it.
C14_SwitchLeavesMode ==
    [][SwitchStep
       => /\ Len(commands') = 1
          /\ config' = config
          /\ control_loop_state' = control_loop_state
          /\ response'.status = 200
                => /\ state'.switch_on = commands'[1]
                   /\ state' # state => file' = JsonFile(config, state_dict(state'))]_vars

C14_Witness ==
    /\ response = [handler |-> "control_switch", status |-> 200]
    /\ commands = <<TRUE>>
    /\ state.switch_on
    /\ state.last_switch_change = Some(now)
    /\ config.mode = "OFF"
    /\ file = JsonFile(config, state_dict(state))

\* What the mode asks of the relay at this temperature: on in ON, off in OFF,
\* on below target - hysteresis and off from target + hysteresis up in AUTO
\* and ECO
Dictates(cfg, temp, on) ==
    LET target == IF cfg.mode = "AUTO" THEN cfg.target_temp ELSE cfg.eco_temp
    IN  CASE cfg.mode = "ON" -> on
          [] cfg.mode = "OFF" -> ~on
          [] temp # None /\ temp[1] < target - cfg.hysteresis -> on
          [] temp # None /\ temp[1] >= target + cfg.hysteresis -> ~on
          [] OTHER -> TRUE

\* The last request served was a manual switch request that succeeded
AfterSwitch == response = [handler |-> "control_switch", status |-> 200]

\* C15: the first iteration that begins after a manual switch request the
\* relay has followed, and completes without an error, leaves the relay in the
\* state the mode dictates for the temperature it read.
C15_LoopOverridesManualSwitch ==
    [][(/\ IterationEnds
        /\ LoopBeginStep
        /\ iter'.outcome = "ok"
        /\ AfterSwitch
        /\ output = state.switch_on)
       => Dictates(config, indoor_temp(iter'.temps), output')]_vars

\* C16: a status request issues no set_switch command and leaves the
\* configuration, the ThermostatState, the file and the loop's health record as
\* they were.
C16_StatusIsReadOnly ==
    [][response'.handler = "get_thermostat_status"
       => /\ commands' = << >>
          /\ updates' = << >>
          /\ config' = config
          /\ state' = state
          /\ file' = file
          /\ control_loop_state' = control_loop_state]_vars

C16_Witness ==
    /\ response = [handler |-> "get_thermostat_status", status |-> 200]
    /\ config.mode = "AUTO"
    /\ state.last_control_decision = None
    /\ ~output
    /\ now > 0

\* C17: with the sensors and the relay reachable and no error recorded, the
\* health check answers "unhealthy" exactly when the last run of the loop began
\* more than twice the configured control_interval ago.
C17_StaleAfterTwoIntervals ==
    health # None
        => LET h == health[1]
           IN  (/\ h.influxdb_connected
                /\ h.shelly_connected
                /\ h.control_loop_error = None
                /\ h.last_control_loop_run # None)
               => (h.status = "unhealthy"
                      <=> (h.timestamp - h.last_control_loop_run[1]) * 60
                              > 2 * config.control_interval * TicksPerMinute)

\* C18: the loop never stops.  Whatever fails in an iteration, the loop comes
\* to sleep, and when the sleep ends while the clock still runs a next
\* iteration starts.
C18_LoopNeverStops ==
    /\ (loop.pc # "sleep") ~> (loop.pc = "sleep")
    /\ \A w \in 0..MaxTime :
          (loop.pc = "sleep" /\ loop.wake = w)
              ~> (/\ control_loop_state.last_run # None
                  /\ control_loop_state.last_run[1] >= w)

C18_Witness ==
    /\ loop.pc = "sleep"
    /\ iter.failures >= 2
    /\ iter.outcome = "exception"
    /\ faults > 0
    /\ control_loop_state.last_error = Some("Error saving config")

\* C19: after an iteration in which a read or a write of the relay, the sample
\* query or anything else raised, last_error is set and consecutive_errors is
\* greater than it was when the iteration began.
C19_EveryFailureRecorded ==
    [][(IterationEnds /\ iter'.outcome \in {"exception", "swallowed"})
       => /\ control_loop_state'.last_error # None
          /\ control_loop_state'.consecutive_errors > ErrorsBefore]_vars

\* C20: when the loop sleeps after k iterations in a row that each ended with
\* an error, consecutive_errors is at least k.
C20_ErrorsCountFailures ==
    loop.pc = "sleep" => control_loop_state.consecutive_errors >= iter.failures

-----------------------------------------------------------------------------
(* Properties of the loop's error record, of its reading of the             *)
(* configuration and the samples, and of what it commands and persists      *)

\* C21: after an iteration of any mode that completes without a failure,
\* monitoring iterations and verified entry actions of ON and OFF included,
\* last_error is None.
C21_SuccessClearsLastError ==
    [][(IterationEnds /\ iter'.outcome = "ok")
       => control_loop_state'.last_error = None]_vars

\* C23: in mode ON or OFF, when the relay read after the settle delay does not
\* report the commanded state, the loop sets last_error, adds one to
\* consecutive_errors, leaves the ThermostatState and mode_action_done as they
\* were and issues no second command.
C23_ManualMismatchRecorded ==
    [][(LoopVerifyStep /\ loop.branch = "manual" /\ iter'.outcome = "unverified")
       => /\ control_loop_state'.last_error # None
          /\ control_loop_state'.consecutive_errors
                 = control_loop_state.consecutive_errors + 1
          /\ state' = state
          /\ ~control_loop_state'.mode_action_done
          /\ commands' = << >>]_vars

\* C25: an AUTO or ECO iteration whose decision equals the relay state it read
\* leaves last_switch_change as it was, whatever switch_on the ThermostatState
\* held.
C25_HoldKeepsDwellTimer ==
    [][(/\ LoopBeginStep
        /\ IterationEnds
        /\ config.mode \in Automatic
        /\ iter'.outcome = "ok")
       => state'.last_switch_change = state.last_switch_change]_vars

\* C22: an iteration that ends with an error as the fifth or a later one in a
\* row, with consecutive_errors at five or more, calls logger.critical.
C22_CriticalAfterFiveFailures ==
    [][(/\ IterationEnds
        /\ iter'.outcome # "ok"
        /\ iter'.failures >= CriticalThreshold
        /\ control_loop_state'.consecutive_errors >= CriticalThreshold)
       => iter'.critical]_vars

\* The dwell time, in ticks, that a switch to should_be_on has to respect
DwellBefore(cfg, should_be_on) ==
    (IF should_be_on THEN cfg.min_off_time ELSE cfg.min_on_time) * TicksPerMinute

\* C26: in AUTO and ECO with the configuration held fixed, a switch of the
\* relay that the loop commands and verifies comes at least min_on_time (when it
\* turns the relay off) or min_off_time (when it turns it on) after the switch
\* the loop commanded and verified before it.
C26_FlipsRespectDwell ==
    [][(/\ LoopVerifyStep
        /\ loop.branch = "auto"
        /\ iter'.outcome = "ok"
        /\ iter.flip # None)
       => now - iter.flip[1] >= DwellBefore(config, loop.should_be_on)]_vars

\* What calculate_control_decision returns for this configuration, mean
\* temperature and relay state at the present time and ThermostatState
Decided(cfg, temp, current_switch_on) ==
    calculate_control_decision(
        temp, IF cfg.mode = "AUTO" THEN cfg.target_temp ELSE cfg.eco_temp,
        cfg.hysteresis, current_switch_on, state.last_switch_change,
        cfg.min_on_time, cfg.min_off_time, now)

\* The iteration that begins in this step has read samples and the relay
DecisionMade ==
    /\ LoopBeginStep
    /\ config.mode \in Automatic
    /\ iter'.temps # << >>
    /\ control_loop_state'.last_error # Some("Error getting switch status")

\* C24: every iteration works with the configuration in force when it begins,
\* the one last accepted by set_config: it records that configuration's mode
\* as last_mode, takes the manual branch exactly in ON and OFF, reads at most
\* temp_sample_count samples and commands what calculate_control_decision
\* returns for its setpoint, hysteresis and dwell times; and the sleep after an
\* iteration lasts the control_interval in force when the iteration ends.
C24_ConfigTakesEffect ==
    [][/\ response'.handler = "set_thermostat_config" /\ response'.status = 200
          => config' = ThermostatConfig(request')[1]
       /\ LoopBeginStep
          => /\ control_loop_state'.last_mode = Some(config.mode)
             /\ Len(iter'.temps) <= config.temp_sample_count
             /\ loop'.pc = "settle"
                   => (loop'.branch = "manual" <=> config.mode \in Manual)
       /\ DecisionMade
          => LET d == Decided(config, indoor_temp(iter'.temps)[1], output)
             IN  commands' = IF d.should_be_on # output THEN <<d.should_be_on>> ELSE << >>
       /\ IterationEnds
          => loop'.wake = now + Seconds(config'.control_interval)]_vars

\* An ECO iteration has run on two samples and sleeps for the shortest
\* interval: the file the process started from holds AUTO, one sample and
\* the same interval, or AUTO, three samples and the default interval
C24_Witness ==
    /\ response.handler = "thermostat_control_loop"
    /\ config.mode = "ECO"
    /\ control_loop_state.last_mode = Some("ECO")
    /\ Len(iter.temps) = 2
    /\ iter.outcome = "ok"
    /\ loop.pc = "sleep"
    /\ loop.wake = now + Seconds(ControlIntervalMin)
    /\ now > 0

\* The arithmetic mean of a non-empty sequence of samples
Mean(temps) == Sum(temps) \div Len(temps)

\* C27: an AUTO or ECO iteration whose query returns no sample records "No
\* indoor temperature data", adds one to consecutive_errors, calls neither
\* get_switch_status nor set_switch and leaves the ThermostatState and the file
\* as they were; one whose query returns samples, at most temp_sample_count of
\* them, decides on their arithmetic mean.
C27_NoDataSkipsCommand ==
    [][/\ (LoopBeginStep /\ config.mode \in Automatic /\ iter'.outcome = "no_data")
          => /\ iter'.temps = << >>
             /\ control_loop_state'.last_error = Some("No indoor temperature data")
             /\ control_loop_state'.consecutive_errors
                    = control_loop_state.consecutive_errors + 1
             /\ iter'.reads = 0
             /\ commands' = << >>
             /\ updates' = << >>
             /\ state' = state
             /\ file' = file
             /\ output' = output
       /\ DecisionMade
          => LET d == Decided(config, Mean(iter'.temps), output)
             IN  /\ Len(iter'.temps) \in 1..config.temp_sample_count
                 /\ commands' = IF d.should_be_on # output THEN <<d.should_be_on>>
                                 ELSE << >>
                 /\ updates' # << >> => updates'[1].decision = d.reason
                 /\ loop'.pc = "settle" => loop'.reason = d.reason]_vars

\* Two iterations in a row have found no sample
C27_Witness ==
    /\ config.mode \in Automatic
    /\ loop.pc = "sleep"
    /\ iter.outcome = "no_data"
    /\ iter.failures = 2
    /\ iter.reads = 0
    /\ control_loop_state.last_error = Some("No indoor temperature data")
    /\ control_loop_state.consecutive_errors = 2
    /\ state = DefaultState

\* A step of an AUTO or ECO iteration
AutoStep ==
    \/ LoopBeginStep /\ config.mode \in Automatic
    \/ LoopVerifyStep /\ loop.branch = "auto"

\* C28: an AUTO or ECO iteration calls set_switch at most once, before the
\* settle delay, only when the decision it computed from the samples and the
\* relay state it read differs from that relay state, and with the decision's
\* should_be_on.
C28_OneCommandOnChange ==
    [][AutoStep
       => /\ Len(commands') <= 1
          /\ LoopVerifyStep => commands' = << >>
          /\ commands' # << >>
                => /\ iter'.temps # << >>
                   /\ iter'.reads = 1
                   /\ LET d == Decided(config, Mean(iter'.temps), output)
                       IN  d.should_be_on # output /\ commands' = <<d.should_be_on>>]_vars

\* The loop has told a relay that was off to turn on and waits to verify it
C28_Witness ==
    /\ loop.pc = "settle"
    /\ loop.branch = "auto"
    /\ commands = <<TRUE>>
    /\ loop.should_be_on
    /\ output
    /\ Len(iter.temps) = 1
    /\ state.last_switch_change # None

\* C29: at the end of an AUTO or ECO iteration that recorded no error, the
\* ThermostatState's switch_on is the relay state the iteration read last: the
\* verifying read after a command, or the read before the decision to hold.
C29_StateFollowsRelay ==
    [][(AutoStep /\ IterationEnds /\ iter'.outcome = "ok")
       => /\ state'.switch_on = output
          /\ updates' = <<[switch_on |-> output, decision |-> state'.last_control_decision[1]]>>
          /\ control_loop_state'.last_error = None]_vars

\* A hold iteration has found the relay on while the ThermostatState said off
C29_Witness ==
    /\ config.mode \in Automatic
    /\ loop.pc = "sleep"
    /\ iter.outcome = "ok"
    /\ iter.reads = 1
    /\ updates # << >>
    /\ state.switch_on
    /\ output
    /\ state.last_switch_change = Some(now)
    /\ iter.flip = None

\* The request handlers and the lifecycle hook that runs while the loop exists
Handlers == {"set_thermostat_config", "get_thermostat_status", "control_switch", "health_check"}

\* C30 as stated: no request handler and no lifecycle hook changes the
\* ThermostatState or any field of control_loop_state.
C30_Original ==
    [][response'.handler \in Handlers \cup {"shutdown_event"}
       => state' = state /\ control_loop_state' = control_loop_state]_vars

\* C30: of the request handlers only the manual switch request writes the
\* ThermostatState, with the commanded switch_on and its own decision text, and
\* none writes control_loop_state; the shutdown hook sets running to false and
\* writes nothing else.
C30_WritersOfStateAndHealth ==
    [][/\ response'.handler \in Handlers \ {"control_switch"} => state' = state
       /\ response'.handler \in Handlers => control_loop_state' = control_loop_state
       /\ (response'.handler = "control_switch" /\ state' # state)
          => /\ commands' = <<state'.switch_on>>
             /\ state'.last_control_decision
                    \in {Some("Manual switch control: ON"), Some("Manual switch control: OFF")}
             /\ state'.last_switch_change \in {state.last_switch_change, Some(now)}
       /\ response'.handler = "shutdown_event"
          => /\ state' = state
             /\ control_loop_state' = [control_loop_state EXCEPT !.running = FALSE]]_vars

\* The process shuts down after the loop has run and a manual switch request
\* has written the ThermostatState
C30_Witness ==
    /\ response.handler = "shutdown_event"
    /\ loop.pc = "stopped"
    /\ ~control_loop_state.running
    /\ control_loop_state.last_run # None
    /\ control_loop_state.last_mode = Some("ECO")
    /\ state.last_control_decision = Some("Manual switch control: ON")
    /\ state.last_switch_change = Some(now)

-----------------------------------------------------------------------------
(* Properties of the configuration snapshot, of saving and loading, of the  *)
(* status projection and of the hysteresis bound                            *)

\* C31: an iteration that commands the relay derives the branch, the command
\* and the decision from the configuration it read when it began, and after the
\* settle delay it verifies that command and records that decision, whatever
\* configuration has been set in between: it issues no further command, it
\* writes the ThermostatState only with the commanded switch_on and the reason
\* computed before the delay, and last_mode stays the mode it began with.
C31_IterationKeepsSnapshot ==
    [][/\ (LoopBeginStep /\ loop'.pc = "settle")
          => /\ commands' = <<loop'.should_be_on>>
             /\ IF config.mode \in Manual
                THEN /\ loop'.branch = "manual"
                     /\ loop'.should_be_on = (config.mode = "ON")
                     /\ loop'.reason = ManualDecision(config.mode = "ON")
                ELSE LET d == Decided(config, Mean(iter'.temps), output)
                     IN  /\ loop'.branch = "auto"
                         /\ loop'.should_be_on = d.should_be_on
                         /\ loop'.reason = d.reason
       /\ LoopVerifyStep
          => /\ commands' = << >>
             /\ control_loop_state'.last_mode = control_loop_state.last_mode
             /\ iter'.outcome = "ok" => updates' # << >>
             /\ updates' # << >>
                   => /\ output = loop.should_be_on
                      /\ updates' = <<[switch_on |-> loop.should_be_on,
                                       decision |-> loop.reason]>>
             /\ state' # state
                   => /\ state'.switch_on = loop.should_be_on
                      /\ state'.last_control_decision = Some(loop.reason)]_vars

\* An AUTO iteration has turned the relay on and recorded it although the
\* mode was set to OFF during its settle delay
C31_Witness ==
    /\ response.handler = "thermostat_control_loop"
    /\ loop.pc = "sleep"
    /\ iter.outcome = "ok"
    /\ iter.reads = 2
    /\ config.mode = "OFF"
    /\ control_loop_state.last_mode = Some("AUTO")
    /\ state.last_control_decision = Some("Turning ON")
    /\ state.switch_on
    /\ output

\* C32: a configuration update whose save fails answers 500 and leaves the
\* configuration in memory as it was.
C32_FailedSaveKeepsConfig ==
    [][(response'.handler = "set_thermostat_config" /\ response'.status # 200)
       => config' = config]_vars

\* C35: when the process dies while saving a configuration update, the next
\* load returns the configuration that was in the file before or the new one,
\* and the state that was in the file before.
C35_CrashKeepsDurableData ==
    [][response'.handler = "crash_in_save"
       => /\ _load_config(file') \in {_load_config(file), ThermostatConfig(request')[1]}
          /\ _load_state(file') = _load_state(file)]_vars

\* A process start
RestartStep == response' = NoResponse

\* What a successful _save of the configuration and the state in memory writes
Saved == file = JsonFile(config, state_dict(state))

Setpoint(cfg) == IF cfg.mode = "AUTO" THEN cfg.target_temp ELSE cfg.eco_temp

RefusesFlip(cfg, switch_on) ==
    LET asks == IF switch_on THEN Setpoint(cfg) + cfg.hysteresis
                ELSE Setpoint(cfg) - cfg.hysteresis - 1
    IN  Decided(cfg, asks, switch_on).should_be_on = switch_on

\* C34: in AUTO and ECO with a temperature, the status response carries
\* switch_locked_until = last_switch_change + min_on_time when the relay is on,
\* + min_off_time when it is off, exactly when there is a last_switch_change
\* and that time is later than now; and it carries one exactly when the
\* decision function would refuse to switch the relay from its state.
C34_LockedUntilMatchesDwell ==
    \A temp \in ReadingInputs :
       config.mode \in Automatic
          => LET st == ThermostatStatus(Some(temp), output)
                 dwell == IF output THEN config.min_on_time ELSE config.min_off_time
                 until == state.last_switch_change[1] + dwell * TicksPerMinute
             IN  /\ st.switch_locked_until
                        = IF state.last_switch_change # None /\ until > now
                          THEN Some(until) ELSE None
                 /\ st.switch_locked_until # None <=> RefusesFlip(config, output)

\* A status request is answered in AUTO or ECO when the dwell time after a
\* manual switch request has just passed
C34_Witness ==
    /\ response = [handler |-> "get_thermostat_status", status |-> 200]
    /\ config.mode \in Automatic
    /\ state.last_switch_change # None
    /\ now = state.last_switch_change[1] + config.min_on_time * TicksPerMinute
    /\ output
    /\ ThermostatStatus(Some(TargetTempDefault), output).switch_locked_until = None

\* C37: a process start leaves last_mode unset and mode_action_done false,
\* and the first iteration after it records the mode as last_mode; when the
\* mode in the file is ON or OFF and the relay can be read, that iteration
\* commands the relay to the mode's state, whether or not an iteration before
\* the restart had done so.
C37_RestartRepeatsEntry ==
    [][/\ (RestartStep /\ loop'.pc = "created")
          => /\ control_loop_state'.last_mode = None
             /\ ~control_loop_state'.mode_action_done
             /\ config' = _load_config(file)
       /\ (LoopBeginStep /\ loop.pc = "created")
          => /\ control_loop_state'.last_mode = Some(config.mode)
             /\ (config.mode \in Manual /\ iter'.outcome # "exception")
                   => commands' = <<config.mode = "ON">>]_vars

\* The first iteration after a restart has commanded the relay on in mode ON,
\* which an iteration before the restart had already done, verified and saved
C37_Witness ==
    /\ config.mode = "ON"
    /\ loop.pc = "settle"
    /\ commands = <<TRUE>>
    /\ control_loop_state.last_run = Some(now)
    /\ ~control_loop_state.mode_action_done
    /\ state.last_control_decision = Some("Manual mode: ON")
    /\ state.switch_on
    /\ faults = 0

\* C38: the hysteresis bound is (0.1, 2.0]: an update with hysteresis 0.1 or
\* less, or more than 2.0, is rejected and the configuration stays what it
\* was; an update with a hysteresis above 0.1 and up to 2.0 is accepted.
C38_HysteresisLowerEndExclusive ==
    [][(response'.handler = "set_thermostat_config" /\ "hysteresis" \in DOMAIN request')
          => IF HysteresisMin < request'["hysteresis"]
                /\ request'["hysteresis"] <= HysteresisMax
             THEN /\ response'.status # 422
                  /\ config'.hysteresis = request'["hysteresis"]
             ELSE /\ response'.status = 422
                  /\ config' = config]_vars

=============================================================================
